---- MODULE Spec2Model ----
(***************************************************************************)
(* Line-search controller and direction dispatcher of                      *)
(* seisflows/optimize/base.py (class base), as a state machine.            *)
(*                                                                         *)
(* Floating-point numbers are modelled as exact rationals <<n, d>> in      *)
(* lowest terms with d > 0; not-a-number is <<0, 0>>.  Vectors are         *)
(* sequences of rationals.  A file of PATH.OPTIMIZE that does not exist is *)
(* the empty sequence.                                                     *)
(***************************************************************************)
EXTENDS Integers, Sequences, FiniteSets, TLC

VARIABLES PAR, iter, restart, restart_count, search_history, step_count, isdone, isbest, isbrak, store, steplog, pc

vars == <<PAR, iter, restart, restart_count, search_history, step_count, isdone, isbest, isbrak, store, steplog, pc>>

\* ------------------------------------------------------------------ bounds

\* outer iterations the driver runs before it stops
MaxIter == 2

\* largest configured PAR.STEPMAX
MaxStepMax == 4

\* ------------------------------------------------------------- arithmetic

Abs(n) == IF n < 0 THEN -n ELSE n

RECURSIVE GCD(_, _)
GCD(a, b) == IF b = 0 THEN a ELSE GCD(b, a % b)

\* the rational n/d (d # 0) in lowest terms with a positive denominator
Rat(n, d) == LET g == GCD(Abs(n), Abs(d)) IN IF d < 0 THEN <<(-n) \div g, (-d) \div g>> ELSE <<n \div g, d \div g>>

R(n) == <<n, 1>>

NaN == <<0, 0>>

isnan(a) == a[2] = 0

RAdd(a, b) == LET g == GCD(a[2], b[2]) IN Rat(a[1] * (b[2] \div g) + b[1] * (a[2] \div g), (a[2] \div g) * b[2])

RSub(a, b) == LET g == GCD(a[2], b[2]) IN Rat(a[1] * (b[2] \div g) - b[1] * (a[2] \div g), (a[2] \div g) * b[2])

RMul(a, b) == LET g == GCD(Abs(a[1]), b[2])
                  h == GCD(Abs(b[1]), a[2])
              IN Rat((a[1] \div g) * (b[1] \div h), (a[2] \div h) * (b[2] \div g))

\* a / b for b # 0
RDiv(a, b) == RMul(a, Rat(b[2], b[1]))

RNeg(a) == <<-a[1], a[2]>>

RAbs(a) == <<Abs(a[1]), a[2]>>

RLt(a, b) == IF a[2] = b[2] THEN a[1] < b[1] ELSE LET g == GCD(a[2], b[2]) IN a[1] * (b[2] \div g) < b[1] * (a[2] \div g)

RLe(a, b) == IF a[2] = b[2] THEN a[1] <= b[1] ELSE LET g == GCD(a[2], b[2]) IN a[1] * (b[2] \div g) <= b[1] * (a[2] \div g)

RMax(a, b) == IF RLt(a, b) THEN b ELSE a

\* ----------------------------------------------------------------- vectors

\* max(abs(v))
RECURSIVE MaxAbs(_)
MaxAbs(v) == IF Len(v) = 1 THEN RAbs(v[1]) ELSE RMax(RAbs(v[1]), MaxAbs(Tail(v)))

\* np.dot(g, p)
RECURSIVE Dot(_, _)
Dot(g, p) == IF g = <<>> THEN R(0) ELSE RAdd(RMul(g[1], p[1]), Dot(Tail(g), Tail(p)))

\* m + p*alpha
Axpy(m, p, alpha) == [i \in DOMAIN m |-> RAdd(m[i], RMul(p[i], alpha))]

VNeg(g) == [i \in DOMAIN g |-> RNeg(g[i])]

VScale(g, c) == [i \in DOMAIN g |-> RMul(g[i], c)]

\* ------------------------------------------------------------------- store

Absent == <<>>

Names == {"m_new", "m_old", "m_try", "f_new", "f_old", "f_try", "g_new", "g_old", "p_new", "p_old", "s_new", "s_old", "alpha"}

\* savenpy / savetxt
Save(st, name, value) == [st EXCEPT ![name] = value]

\* unix.rm
Rm(st, name) == [st EXCEPT ![name] = Absent]

\* unix.mv
Mv(st, src, dst) == [st EXCEPT ![dst] = st[src], ![src] = Absent]

\* ------------------------------------------------------- line search history

\* the key of the stable argsort: |x| of a comes strictly before |x| of b
ByAbsStep(a, b) == RLt(RAbs(a[1]), RAbs(b[1]))

\* history[abs(x).argsort()]: ascending |x|, equal keys in insertion order
ArgSorted(h) == SortSeq(h, ByAbsStep)

step_lens(h, sort) == LET v == IF sort THEN ArgSorted(h) ELSE h IN [i \in DOMAIN v |-> v[i][1]]

func_vals(h, sort) == LET v == IF sort THEN ArgSorted(h) ELSE h IN [i \in DOMAIN v |-> v[i][2]]

\* variant: among equal minima the last one is taken
ArgMin_Last(f) == CHOOSE i \in DOMAIN f : (\A j \in DOMAIN f : RLe(f[i], f[j])) /\ (\A j \in (i + 1)..Len(f) : RLt(f[i], f[j]))

\* index of the first minimum (f.argmin(), 1-based)
ArgMin(f) == CHOOSE i \in DOMAIN f : (\A j \in DOMAIN f : RLe(f[i], f[j])) /\ (\A j \in 1..(i - 1) : RLt(f[i], f[j]))

\* f.min()
FMin(f) == f[ArgMin(f)]

\* any(f[1:] < f[0])
AnyBelow(f) == \E i \in 2..Len(f) : RLt(f[i], f[1])

\* any(f[1:] <= f[0])
AnyBelowEq(f) == \E i \in 2..Len(f) : RLe(f[i], f[1])

\* f[-2] < f[-1]
LastTwoRising(f) == RLt(f[Len(f) - 1], f[Len(f)])

\* variant: the latest trial counts as best when it only ties an earlier one
LatestIsBest_Ties(vals) == \A i \in 1..(Len(vals) - 1) : RLe(vals[Len(vals)], vals[i])

\* np.all(vals[-1] < vals[:-1])
LatestIsBest(vals) == \A i \in 1..(Len(vals) - 1) : RLt(vals[Len(vals)], vals[i])

\* ------------------------------------------------- step length strategies

Fail == <<"fail">>

\* vertex of the parabola through the three lowest-|step| points of the
\* sorted history; Fail (DegenerateFit) when the fit has a zero denominator
polyfit2(x, f) == LET d == RAdd(RAdd(RMul(f[1], RSub(x[2], x[3])), RMul(f[2], RSub(x[3], x[1]))), RMul(f[3], RSub(x[1], x[2])))
                      n == RAdd(RAdd(RMul(f[1], RSub(RMul(x[2], x[2]), RMul(x[3], x[3]))), RMul(f[2], RSub(RMul(x[3], x[3]), RMul(x[1], x[1])))), RMul(f[3], RSub(RMul(x[1], x[1]), RMul(x[2], x[2]))))
                  IN IF d[1] = 0 THEN Fail ELSE RDiv(n, RMul(R(2), d))

\* safeguarded parabolic backtrack: the minimizer of the parabola through
\* (0, f0) with slope g0 and (x1, f1), kept within [b1*x1, b2*x1]; a zero
\* denominator gives an infinite quotient, which the safeguard cuts back
\* (not-a-number when the numerator is zero too)
backtrack2(f0, g0, x1, f1, b1, b2) == LET num == RNeg(RMul(g0, RMul(x1, x1)))
                                          den == RMul(R(2), RSub(RSub(f1, f0), RMul(g0, x1)))
                                      IN IF den[1] = 0 THEN (IF num[1] > 0 THEN RMul(b2, x1) ELSE IF num[1] < 0 THEN RMul(b1, x1) ELSE NaN)
                                         ELSE IF RLt(RMul(b2, x1), RDiv(num, den)) THEN RMul(b2, x1)
                                         ELSE IF RLt(RDiv(num, den), RMul(b1, x1)) THEN RMul(b1, x1)
                                         ELSE RDiv(num, den)

\* -------------------------------------------------------------- parameters

\* objective values the external evaluator can return for the next trial of
\* the line search with history h: the baseline, 2 above the baseline, or 2
\* below the lowest objective recorded so far
FVals(h) == {h[1][2], RAdd(h[1][2], R(2)), RAdd(FMin(func_vals(h, FALSE)), R(-2))}

\* gradients the external simulation can supply
GVals == {<<R(0), R(2)>>}

\* the starting model
M0 == <<R(20), R(0)>>

\* the objective at the starting model
F0 == R(12)

\* PAR after check(): defaults of the line-search tuning parameters
STEPINIT == <<1, 20>>

STEPFACTOR == <<1, 2>>

STEPOVERSHOOT == R(0)

\* PAR.STEPTHRESH = None
STEPTHRESH == R(0)

\* the (SCHEME, LINESEARCH) pairs explored: every line search with SD, NLCG
\* with its default (Bracket), LBFGS with its default (Backtrack) and with Fixed
Pairs == ({"SD"} \X {"Fixed", "Bracket", "Backtrack"}) \cup {<<"NLCG", "Bracket">>, <<"LBFGS", "Backtrack">>, <<"LBFGS", "Fixed">>}

Configs == {c \in [SCHEME : {"SD", "NLCG", "LBFGS"}, LINESEARCH : {"Fixed", "Bracket", "Backtrack"}, STEPMAX : 1..MaxStepMax, STEPINIT : {STEPINIT}, STEPFACTOR : {STEPFACTOR}, STEPOVERSHOOT : {STEPOVERSHOOT}, STEPTHRESH : {STEPTHRESH}] : <<c.SCHEME, c.LINESEARCH>> \in Pairs}

\* the (SCHEME, LINESEARCH) pairs explored with the optional tuning
\* parameters configured
TunedPairs == ({"SD"} \X {"Fixed", "Bracket", "Backtrack"}) \cup {<<"NLCG", "Bracket">>}

\* configured (STEPOVERSHOOT, STEPTHRESH) pairs
Tunings == {<<R(2), <<1, 40>>>>, <<R(0), <<1, 10>>>>}

\* PAR after check() with the optional tuning parameters configured
TunedConfigs == {[SCHEME |-> p[1], LINESEARCH |-> p[2], STEPMAX |-> MaxStepMax, STEPINIT |-> STEPINIT, STEPFACTOR |-> STEPFACTOR, STEPOVERSHOOT |-> t[1], STEPTHRESH |-> t[2]] : p \in TunedPairs, t \in Tunings}

\* (p_new, restart) pairs a direction algorithm (NLCG, LBFGS) can return for
\* the gradient g: a restart returns the steepest-descent direction
DirectionAlgorithm(g) == {<<VNeg(g), TRUE>>, <<VScale(VNeg(g), R(2)), FALSE>>}

\* ------------------------------------------------------------------- state

Init == /\ PAR \in Configs
        /\ iter = 1
        /\ restart = FALSE
        /\ restart_count = 0
        /\ search_history = <<>>
        /\ step_count = 0
        /\ isdone = 0
        /\ isbest = 0
        /\ isbrak = 0
        /\ \E g \in GVals : store = [n \in Names |-> IF n = "m_new" THEN M0 ELSE IF n = "f_new" THEN F0 ELSE IF n = "g_new" THEN g ELSE Absent]
        /\ steplog = <<>>
        /\ pc = "direction"

\* ------------------------------------------------------ direction dispatcher

\* variant: the count starts over when no restart is reported
CountRestart_Reset(count, flag) == IF flag THEN count + 1 ELSE 0

\* self.restart_count after "if self.restart: self.restart_count += 1"
CountRestart(count, flag) == IF flag THEN count + 1 ELSE count

compute_direction == /\ pc = "direction"
                     /\ LET g_new == store["g_new"]
                        IN \E d \in (IF PAR.SCHEME = "SD" THEN {<<VNeg(g_new), restart>>}
                                     ELSE IF PAR.SCHEME = "NLCG" THEN DirectionAlgorithm(g_new)
                                     ELSE DirectionAlgorithm(g_new)) :
                              /\ restart' = d[2]
                              /\ restart_count' = CountRestart(restart_count, d[2])
                              /\ store' = Save(Save(store, "p_new", d[1]), "s_new", Dot(g_new, d[1]))
                     /\ pc' = "init"
                     /\ UNCHANGED <<PAR, iter, search_history, step_count, isdone, isbest, isbrak, steplog>>

\* ------------------------------------------------------ line search controller

\* float(norm_m/norm_p)
p_ratio(m, p) == RDiv(MaxAbs(m), MaxAbs(p))

step_init(st) == RMul(RMul(R(2), RDiv(st["s_new"], st["s_old"])), st["alpha"])

\* the initial step length, before the optional scaling and safeguard
InitialAlpha(par, it, rs, st) == IF it = 1 THEN RMul(p_ratio(st["m_new"], st["p_new"]), par.STEPINIT)
                                 ELSE IF rs THEN RMul(p_ratio(st["m_new"], st["p_new"]), par.STEPINIT)
                                 ELSE IF par.LINESEARCH = "Backtrack" THEN R(1)
                                 ELSE step_init(st)

\* optional ad hoc scaling
Overshoot(par, alpha) == IF par.STEPOVERSHOOT[1] # 0 THEN RMul(alpha, par.STEPOVERSHOOT) ELSE alpha

\* variant: the safeguard also caps the first iteration
Safeguard_Always(par, it, st, alpha) == IF par.STEPTHRESH[1] # 0 /\ RLt(RMul(p_ratio(st["m_new"], st["p_new"]), par.STEPTHRESH), alpha)
                                        THEN RMul(p_ratio(st["m_new"], st["p_new"]), par.STEPTHRESH) ELSE alpha

\* optional maximum step length safeguard
Safeguard(par, it, st, alpha) == IF par.STEPTHRESH[1] # 0 /\ RLt(RMul(p_ratio(st["m_new"], st["p_new"]), par.STEPTHRESH), alpha) /\ it > 1
                                 THEN RMul(p_ratio(st["m_new"], st["p_new"]), par.STEPTHRESH) ELSE alpha

\* variant: the bracket flag survives into the next line search
initialize_search_keep_brak == /\ pc = "init"
                               /\ LET f == store["f_new"]
                                      alpha == Safeguard(PAR, iter, store, Overshoot(PAR, InitialAlpha(PAR, iter, restart, store)))
                                  IN /\ search_history' = <<<<R(0), f>>>>
                                     /\ store' = Save(Save(store, "m_try", Axpy(store["m_new"], store["p_new"], alpha)), "alpha", alpha)
                                     /\ steplog' = <<<<R(0), f>>>>
                               /\ step_count' = 0
                               /\ isdone' = 0
                               /\ isbest' = 0
                               /\ isbrak' = isbrak
                               /\ pc' = "status"
                               /\ UNCHANGED <<PAR, iter, restart, restart_count>>

\* initialize_search: reset of the history and flags, initial step length
initialize_search == /\ pc = "init"
                     /\ LET f == store["f_new"]
                            alpha == Safeguard(PAR, iter, store, Overshoot(PAR, InitialAlpha(PAR, iter, restart, store)))
                        IN /\ search_history' = <<<<R(0), f>>>>
                           /\ store' = Save(Save(store, "m_try", Axpy(store["m_new"], store["p_new"], alpha)), "alpha", alpha)
                           /\ steplog' = <<<<R(0), f>>>>
                     /\ step_count' = 0
                     /\ isdone' = 0
                     /\ isbest' = 0
                     /\ isbrak' = 0
                     /\ pc' = "status"
                     /\ UNCHANGED <<PAR, iter, restart, restart_count>>

\* variant: the configured line search governs every iteration
StatusStrategy_NoOverride(par, it, rs) == par.LINESEARCH

\* the branch of the stopping-criteria chain that search_status takes
StatusStrategy(par, it, rs) == IF par.LINESEARCH = "Fixed" THEN "Fixed"
                               ELSE IF par.LINESEARCH = "Bracket" \/ it = 1 \/ rs THEN "Bracket"
                               ELSE IF par.LINESEARCH = "Backtrack" THEN "Backtrack"
                               ELSE "none"

\* is current step length the best so far?
IsBestAfter(vals, best) == IF LatestIsBest(vals) THEN 1 ELSE best

\* variant: any decrease below the baseline flags the bracket
IsBrakAfter_AnyDecrease(strategy, f, brak) == IF strategy = "Bracket" /\ brak = 0 /\ AnyBelow(f) THEN 1 ELSE brak

IsBrakAfter(strategy, f, brak) == IF strategy = "Bracket" /\ brak = 0 /\ AnyBelow(f) /\ LastTwoRising(f) THEN 1 ELSE brak

\* variant: Fixed converges on a rise alone
IsDoneAfter_RiseOnly(strategy, f, brak, done) == IF strategy = "Fixed" THEN (IF LastTwoRising(f) THEN 1 ELSE done)
                                                 ELSE IF strategy = "Bracket" THEN (IF brak # 0 THEN 1 ELSE done)
                                                 ELSE IF strategy = "Backtrack" THEN (IF AnyBelow(f) THEN 1 ELSE done)
                                                 ELSE done

\* variant: Backtrack accepts a trial that only ties the baseline
IsDoneAfter_Ties(strategy, f, brak, done) == IF strategy = "Fixed" THEN (IF AnyBelow(f) /\ LastTwoRising(f) THEN 1 ELSE done)
                                             ELSE IF strategy = "Bracket" THEN (IF brak # 0 THEN 1 ELSE done)
                                             ELSE IF strategy = "Backtrack" THEN (IF AnyBelowEq(f) THEN 1 ELSE done)
                                             ELSE done

\* are stopping criteria satisfied?
IsDoneAfter(strategy, f, brak, done) == IF strategy = "Fixed" THEN (IF AnyBelow(f) /\ LastTwoRising(f) THEN 1 ELSE done)
                                        ELSE IF strategy = "Bracket" THEN (IF brak # 0 THEN 1 ELSE done)
                                        ELSE IF strategy = "Backtrack" THEN (IF AnyBelow(f) THEN 1 ELSE done)
                                        ELSE done

\* variant: the limit does not override a converged search
StepLimit_KeepDone(par, count, done) == IF count >= par.STEPMAX /\ done = 0 THEN -1 ELSE done

\* variant: the limit is enforced one trial late
StepLimit_Late(par, count, done) == IF count > par.STEPMAX THEN -1 ELSE done

\* if self.step_count >= PAR.STEPMAX: self.isdone = -1
StepLimit(par, count, done) == IF count >= par.STEPMAX THEN -1 ELSE done

\* variant: the history is kept in ascending |step| order
Record_Sorted(h, x_, f_) == ArgSorted(h \o <<<<x_, f_>>>>)

\* self.search_history += [[x_, f_]]
Record(h, x_, f_) == h \o <<<<x_, f_>>>>

\* variant: the not-a-number check comes after the history update
search_status_raise_late == /\ pc = "status"
                            /\ store' = Save(store, "f_try", NaN)
                            /\ search_history' = search_history \o <<<<store["alpha"], NaN>>>>
                            /\ step_count' = step_count + 1
                            /\ pc' = "error"
                            /\ UNCHANGED <<PAR, iter, restart, restart_count, isdone, isbest, isbrak, steplog>>

\* search_status reads the objective f_try that the external evaluator has
\* written for m_try
search_status_raise == /\ pc = "status"
                       /\ store' = Save(store, "f_try", NaN)
                       /\ isnan(store'["f_try"])
                       /\ pc' = "error"
                       /\ UNCHANGED <<PAR, iter, restart, restart_count, search_history, step_count, isdone, isbest, isbrak, steplog>>

search_status_update == /\ pc = "status"
                        /\ \E v \in FVals(search_history) : store' = Save(store, "f_try", v)
                        /\ ~isnan(store'["f_try"])
                        /\ LET x_ == store'["alpha"]
                               f_ == store'["f_try"]
                               h == Record(search_history, x_, f_)
                               f == func_vals(h, TRUE)
                               strategy == StatusStrategy(PAR, iter, restart)
                           IN /\ search_history' = h
                              /\ step_count' = step_count + 1
                              /\ isbest' = IsBestAfter(func_vals(h, FALSE), isbest)
                              /\ isbrak' = IsBrakAfter(strategy, f, isbrak)
                              /\ isdone' = StepLimit(PAR, step_count + 1, IsDoneAfter(strategy, f, isbrak, isdone))
                              /\ steplog' = Append(steplog, <<x_, f_>>)
                        /\ pc' = IF isdone' = 0 THEN "step" ELSE "finalize"
                        /\ UNCHANGED <<PAR, iter, restart, restart_count>>

search_status == search_status_raise \/ search_status_update

\* the branch of the trial-step chain that compute_step takes
StepStrategy(par, it, rs) == IF par.LINESEARCH = "Fixed" THEN "Fixed"
                             ELSE IF par.LINESEARCH = "Bracket" \/ it = 1 \/ rs THEN "Bracket"
                             ELSE IF par.LINESEARCH = "Backtrack" THEN "Backtrack"
                             ELSE "none"

\* variant: only a trial strictly below the baseline expands the step
BracketStep_StrictExpand(par, x, f, alpha) == IF AnyBelow(f) /\ LastTwoRising(f) THEN polyfit2(x, f)
                                              ELSE IF AnyBelow(f) THEN RDiv(alpha, par.STEPFACTOR)
                                              ELSE RMul(alpha, par.STEPFACTOR)

\* the Bracket branch of compute_step
BracketStep(par, x, f, alpha) == IF AnyBelow(f) /\ LastTwoRising(f) THEN polyfit2(x, f)
                                 ELSE IF AnyBelowEq(f) THEN RDiv(alpha, par.STEPFACTOR)
                                 ELSE RMul(alpha, par.STEPFACTOR)

\* variant: Backtrack is handed the trial with the largest step
TrialStep_Largest(par, it, rs, st, h, count) == LET x == step_lens(h, TRUE)
                                                    f == func_vals(h, TRUE)
                                                    strategy == StepStrategy(par, it, rs)
                                                IN IF strategy = "Fixed" THEN RMul(RMul(p_ratio(st["m_new"], st["p_new"]), R(count + 1)), par.STEPINIT)
                                                   ELSE IF strategy = "Bracket" THEN BracketStep(par, x, f, st["alpha"])
                                                   ELSE backtrack2(f[1], st["s_new"], x[Len(x)], f[Len(f)], <<1, 10>>, <<1, 2>>)

\* the trial step length that compute_step computes
TrialStep(par, it, rs, st, h, count) == LET x == step_lens(h, TRUE)
                                            f == func_vals(h, TRUE)
                                            strategy == StepStrategy(par, it, rs)
                                        IN IF strategy = "Fixed" THEN RMul(RMul(p_ratio(st["m_new"], st["p_new"]), R(count + 1)), par.STEPINIT)
                                           ELSE IF strategy = "Bracket" THEN BracketStep(par, x, f, st["alpha"])
                                           ELSE backtrack2(f[1], st["s_new"], x[2], f[2], <<1, 10>>, <<1, 2>>)

compute_step_raise == /\ pc = "step"
                      /\ TrialStep(PAR, iter, restart, store, search_history, step_count) = Fail
                      /\ pc' = "error"
                      /\ UNCHANGED <<PAR, iter, restart, restart_count, search_history, step_count, isdone, isbest, isbrak, store, steplog>>

compute_step_write == /\ pc = "step"
                      /\ LET alpha == TrialStep(PAR, iter, restart, store, search_history, step_count)
                         IN /\ alpha # Fail
                            /\ store' = Save(Save(store, "alpha", alpha), "m_try", Axpy(store["m_new"], store["p_new"], alpha))
                      /\ pc' = "status"
                      /\ UNCHANGED <<PAR, iter, restart, restart_count, search_history, step_count, isdone, isbest, isbrak, steplog>>

compute_step == compute_step_raise \/ compute_step_write

\* variant: the largest step tried is committed
BestStep_Largest(x, f) == x[Len(x)]

\* alpha = x[f.argmin()]
BestStep(x, f) == x[ArgMin(f)]

RemoveOld(it, st) == IF it > 1 THEN Rm(Rm(Rm(Rm(Rm(st, "m_old"), "f_old"), "g_old"), "p_old"), "s_old") ELSE st

\* variant: the slope is not rotated
Rotate_KeepSlope(st) == Mv(Mv(Mv(Mv(st, "m_new", "m_old"), "f_new", "f_old"), "g_new", "g_old"), "p_new", "p_old")

\* unix.mv of the five *_new entries
Rotate(st) == Mv(Mv(Mv(Mv(Mv(st, "m_new", "m_old"), "f_new", "f_old"), "g_new", "g_old"), "p_new", "p_old"), "s_new", "s_old")

finalize_search == /\ pc = "finalize"
                   /\ LET m == store["m_new"]
                          p == store["p_new"]
                          x == step_lens(search_history, TRUE)
                          f == func_vals(search_history, TRUE)
                          cleaned == Rm(Rm(Rm(store, "alpha"), "m_try"), "f_try")
                          rotated == Rotate(RemoveOld(iter, cleaned))
                          alpha == BestStep(x, f)
                      IN store' = Save(Save(Save(rotated, "alpha", alpha), "m_new", Axpy(m, p, alpha)), "f_new", FMin(f))
                   /\ pc' = "next"
                   /\ UNCHANGED <<PAR, iter, restart, restart_count, search_history, step_count, isdone, isbest, isbrak, steplog>>

\* the workflow starts the next outer iteration after a converged line search
\* (a failed one ends the run): it advances iter and the external simulation
\* supplies the gradient at the committed model
NextIteration == /\ pc = "next"
                 /\ isdone = 1
                 /\ iter < MaxIter
                 /\ iter' = iter + 1
                 /\ \E g \in GVals : store' = Save(store, "g_new", g)
                 /\ pc' = "direction"
                 /\ UNCHANGED <<PAR, restart, restart_count, search_history, step_count, isdone, isbest, isbrak, steplog>>

Next == \/ compute_direction
        \/ initialize_search
        \/ search_status
        \/ compute_step
        \/ finalize_search
        \/ NextIteration

Spec == Init /\ [][Next]_vars

\* the state after setup() with the optional tuning parameters configured
InitTuned == /\ PAR \in TunedConfigs
             /\ iter = 1
             /\ restart = FALSE
             /\ restart_count = 0
             /\ search_history = <<>>
             /\ step_count = 0
             /\ isdone = 0
             /\ isbest = 0
             /\ isbrak = 0
             /\ \E g \in GVals : store = [n \in Names |-> IF n = "m_new" THEN M0 ELSE IF n = "f_new" THEN F0 ELSE IF n = "g_new" THEN g ELSE Absent]
             /\ steplog = <<>>
             /\ pc = "direction"

SpecTuned == InitTuned /\ [][Next]_vars

\* ------------------------------------------------------------------ claims

\* a line search is open or has just been finalized: the controller's fields
\* and iter, restart are those of this line search
InSearch == pc \in {"status", "step", "finalize", "next", "error"}

\* search_status has just returned
StatusReturned == pc \in {"step", "finalize"}

\* objective of the k-th entry of the chronological history (1 is the baseline)
Obj(k) == search_history[k][2]

\* step length of the k-th entry of the chronological history
Step(k) == search_history[k][1]

\* some trial among the first k has an objective strictly below the baseline
BelowBaselineWithin(k) == \E i \in 2..(k + 1) : RLt(Obj(i), Obj(1))

\* the history after k trials, in ascending |step| order, brackets a minimum
BracketFlagAt(k) == LET f == func_vals(SubSeq(search_history, 1, k + 1), TRUE) IN k >= 1 /\ AnyBelow(f) /\ LastTwoRising(f)

BracketGoverned == PAR.LINESEARCH # "Fixed" /\ (PAR.LINESEARCH = "Bracket" \/ iter = 1 \/ restart)

BacktrackGoverned == PAR.LINESEARCH = "Backtrack" /\ iter > 1 /\ ~restart

\* C1: after finalize_search the committed step length is that of a history
\* entry with the minimum objective (baseline included), m_new is the previous
\* m_new plus that step times p_new, and f_new is the minimum of the history
\* objectives, which is the minimum of the logged trial objectives.
C1_FinalizeSelectsMinimum == pc = "next" =>
    /\ \E i \in DOMAIN search_history : Step(i) = store["alpha"] /\ Obj(i) = store["f_new"]
    /\ \A j \in DOMAIN search_history : RLe(store["f_new"], Obj(j))
    /\ store["m_new"] = Axpy(store["m_old"], store["p_old"], store["alpha"])
    /\ \E k \in DOMAIN steplog : steplog[k][2] = store["f_new"]
    /\ \A k \in DOMAIN steplog : RLe(store["f_new"], steplog[k][2])

\* a finalized search whose lowest objective is the first of three trials
C1_Witness == /\ pc = "next"
              /\ Len(search_history) = 4
              /\ RLt(Obj(2), Obj(1)) /\ RLt(Obj(2), Obj(3)) /\ RLe(Obj(2), Obj(4))
              /\ store["alpha"] = Step(2)
              /\ store["f_new"] = Obj(2)

\* C2: in a Bracket-governed line search where trial 1 is below the baseline
\* and trial 2 is worse than trial 1, isbrak is 0 after trial 1, is 1 (isdone
\* still 0) after trial 2, and isdone is 1 after trial 3 whatever its
\* objective, while step_count is below STEPMAX.
C2_BracketCloses == (InSearch /\ BracketGoverned /\ step_count >= 1 /\ RLt(Obj(2), Obj(1))) =>
    /\ step_count = 1 => isbrak = 0
    /\ (step_count = 1 /\ step_count < PAR.STEPMAX) => isdone = 0
    /\ (step_count = 2 /\ RLt(Obj(2), Obj(3))) => (isbrak = 1 /\ (step_count < PAR.STEPMAX => isdone = 0))
    /\ (step_count = 3 /\ RLt(Obj(2), Obj(3)) /\ step_count < PAR.STEPMAX) => isdone = 1

\* the bracket closes on a third trial that is worse than every earlier one
C2_Witness == /\ pc = "finalize"
              /\ BracketGoverned
              /\ step_count = 3
              /\ RLt(Obj(2), Obj(1)) /\ RLt(Obj(2), Obj(3)) /\ RLt(Obj(1), Obj(4))
              /\ isbrak = 1
              /\ isdone = 1

\* C3: in a Backtrack-governed line search with step_count below STEPMAX,
\* isdone is 0 while no trial is strictly below the baseline, isdone and
\* isbest are 1 at the first trial strictly below it, and finalize_search
\* then commits that trial's step length and objective.
C3_BacktrackFirstDecrease == (InSearch /\ BacktrackGoverned) =>
    /\ (step_count < PAR.STEPMAX /\ ~BelowBaselineWithin(step_count)) => isdone = 0
    /\ (step_count >= 1 /\ step_count < PAR.STEPMAX /\ RLt(Obj(step_count + 1), Obj(1)) /\ ~BelowBaselineWithin(step_count - 1)) => (isdone = 1 /\ isbest = 1)
    /\ (pc = "next" /\ isdone = 1) => /\ store["alpha"] = Step(step_count + 1)
                                      /\ store["f_new"] = Obj(step_count + 1)
                                      /\ store["m_new"] = Axpy(store["m_old"], store["p_old"], Step(step_count + 1))

\* baseline 10; alpha = 1 gives 12; alpha = 2/5 gives 8; committed 2/5 and 8
C3_Witness == /\ pc = "next"
              /\ BacktrackGoverned
              /\ search_history = <<<<R(0), R(10)>>, <<R(1), R(12)>>, <<<<2, 5>>, R(8)>>>>
              /\ isdone = 1
              /\ isbest = 1
              /\ store["alpha"] = <<2, 5>>
              /\ store["f_new"] = R(8)

\* the strategy's convergence predicate holds at the k-th trial
ConvergesAt(k) == IF PAR.LINESEARCH = "Fixed" THEN BracketFlagAt(k)
                  ELSE IF BracketGoverned THEN \E j \in 1..(k - 1) : BracketFlagAt(j)
                  ELSE BelowBaselineWithin(k)

\* C4: while the trial objectives never satisfy the strategy's convergence
\* predicate, isdone is 0 after each of the first STEPMAX-1 trials and -1
\* after the STEPMAX-th; step_count never exceeds STEPMAX.
C4_StepMaxEnforced == InSearch =>
    /\ step_count <= PAR.STEPMAX
    /\ (\A k \in 1..step_count : ~ConvergesAt(k)) => isdone = (IF step_count >= 1 /\ step_count = PAR.STEPMAX THEN -1 ELSE 0)

\* a search of at least three trials that fails at the STEPMAX-th
C4_Witness == /\ pc = "finalize"
              /\ PAR.STEPMAX >= 3
              /\ step_count = PAR.STEPMAX
              /\ \A k \in 1..step_count : ~ConvergesAt(k)
              /\ isdone = -1

\* C5: a search_status call that reads a not-a-number f_try raises and
\* leaves the history, step_count, isdone, isbest, isbrak and the step log
\* as they were.
C5_NanLeavesState == [][(pc = "status" /\ isnan(store'["f_try"])) => (pc' = "error" /\ UNCHANGED <<search_history, step_count, isdone, isbest, isbrak, steplog>>)]_vars

\* search_status has raised on the third trial of a line search
C5_Witness == /\ pc = "error"
              /\ isnan(store["f_try"])
              /\ step_count = 2
              /\ Len(search_history) = 3
              /\ Len(steplog) = 3

\* C6: restart_count increases by exactly 1 in each compute_direction call
\* in which the direction algorithm reports a restart, and no other step
\* changes it.
C6_RestartCount == [][restart_count' = (IF pc = "direction" /\ PAR.SCHEME # "SD" /\ restart' THEN restart_count + 1 ELSE restart_count)]_vars

\* both iterations restarted and the line search left the count at 2
C6_Witness == /\ restart_count = 2
              /\ iter = 2
              /\ pc = "next"

\* the history starts with the baseline and has step_count + 1 entries
C7_HistoryShape == InSearch =>
    /\ Len(search_history) = step_count + 1
    /\ search_history[1] = <<R(0), IF pc = "next" THEN store["f_old"] ELSE store["f_new"]>>

\* a successful search_status appends (alpha, f_try) at the end; compute_step
\* and finalize_search leave the history alone
C7_HistoryAppendOnly == [][/\ (pc = "status" /\ ~isnan(store'["f_try"])) => search_history' = Append(search_history, <<store["alpha"], store'["f_try"]>>)
                           /\ pc \in {"step", "finalize"} => search_history' = search_history]_vars

\* C7: the history of a line search starts with the baseline (0, f_new) and
\* has step_count + 1 entries; a successful search_status appends (alpha,
\* f_try) at the end and compute_step and finalize_search leave it alone.
C7_History == []C7_HistoryShape /\ C7_HistoryAppendOnly

\* three trials recorded in the order tried, a smaller step after a larger one
C7_Witness == /\ pc = "next"
              /\ step_count = 3
              /\ Len(search_history) = 4
              /\ RLt(RAbs(Step(3)), RAbs(Step(2)))

\* C8: the isbest that search_status returns equals "the most recent trial's
\* objective is strictly less than every earlier objective of this line
\* search".
C8_IsBestIsLatest == StatusReturned => (isbest = 1 <=> \A i \in 1..step_count : RLt(Obj(step_count + 1), Obj(i)))

\* C9: a line search in which no trial is strictly below the baseline never
\* marks isbest.
C9_NoDecreaseNoBest == (InSearch /\ ~BelowBaselineWithin(step_count)) => isbest = 0

\* one trial worse than the baseline, then finalize_search
C9_Witness == /\ pc = "next"
              /\ step_count = 1
              /\ RLt(Obj(1), Obj(2))
              /\ isbest = 0

\* the Bracket rules: isbrak is flagged at the first trial where the history
\* brackets a minimum, the search converges on the trial after that, and
\* every proposed step is the Bracket step for the history so far
BracketRules == /\ isbrak = 1 <=> \E k \in 1..step_count : BracketFlagAt(k)
                /\ isdone = 1 => \E k \in 1..(step_count - 1) : BracketFlagAt(k)
                /\ ((\E k \in 1..(step_count - 1) : BracketFlagAt(k)) /\ step_count < PAR.STEPMAX) => isdone = 1
                /\ (pc = "status" /\ step_count >= 1) => store["alpha"] = BracketStep(PAR, step_lens(search_history, TRUE), func_vals(search_history, TRUE), Step(step_count + 1))

\* the Fixed rules: no bracket flag, convergence on the trial that shows a
\* rise after a decrease, and steps on the linear schedule
FixedRules == /\ isbrak = 0
              /\ (step_count >= 1 /\ step_count < PAR.STEPMAX) => (isdone = 1 <=> BracketFlagAt(step_count))
              /\ (pc = "status" /\ step_count >= 1) => store["alpha"] = RMul(RMul(p_ratio(store["m_new"], store["p_new"]), R(step_count + 1)), PAR.STEPINIT)

C11_FixedDoneChronological == (StatusReturned /\ PAR.LINESEARCH = "Fixed" /\ step_count < PAR.STEPMAX) =>
    (isdone = 1 <=> (BelowBaselineWithin(step_count) /\ RLt(Obj(step_count), Obj(step_count + 1))))

\* C12: every initialize_search call, whatever the flags and history left by
\* the previous line search, sets the history to exactly [(0, f_new)],
\* step_count to 0 and isdone, isbest and isbrak to 0.
C12_InitializeResets == [][pc = "init" => /\ search_history' = <<<<R(0), store["f_new"]>>>>
                                          /\ step_count' = 0
                                          /\ isdone' = 0
                                          /\ isbest' = 0
                                          /\ isbrak' = 0]_vars

\* the second line search of a Bracket configuration has just been
\* initialized: the previous one ended with isdone, isbest and isbrak at 1
\* and a history of several trials
C12_Witness == /\ pc = "status"
               /\ iter = 2
               /\ PAR.LINESEARCH = "Bracket"
               /\ step_count = 0
               /\ isdone = 0 /\ isbest = 0 /\ isbrak = 0
               /\ search_history = <<<<R(0), store["f_new"]>>>>
               /\ store["f_old"] # Absent

\* the step length committed by the finalize_search of the line search whose
\* history is still in place
CommittedStep == LET x == step_lens(search_history, TRUE)
                     f == func_vals(search_history, TRUE)
                 IN x[ArgMin(f)]

\* p_ratio of the model and direction in the store
StorePRatio == RDiv(MaxAbs(store["m_new"]), MaxAbs(store["p_new"]))

\* the initial step length before scaling and capping
ExpectedBaseStep == IF iter = 1 \/ restart THEN RMul(StorePRatio, PAR.STEPINIT)
                    ELSE IF PAR.LINESEARCH = "Backtrack" THEN R(1)
                    ELSE RMul(RMul(R(2), RDiv(store["s_new"], store["s_old"])), CommittedStep)

ExpectedScaledStep == IF PAR.STEPOVERSHOOT # R(0) THEN RMul(ExpectedBaseStep, PAR.STEPOVERSHOOT) ELSE ExpectedBaseStep

ExpectedInitialStep == IF PAR.STEPTHRESH # R(0) /\ iter > 1 /\ RLt(RMul(StorePRatio, PAR.STEPTHRESH), ExpectedScaledStep)
                       THEN RMul(StorePRatio, PAR.STEPTHRESH) ELSE ExpectedScaledStep

\* C13: initialize_search writes the step length p_ratio*STEPINIT when
\* iter = 1 or restart is set, else 1 under Backtrack, else
\* 2*(s_new/s_old) times the step committed by the previous finalize_search;
\* multiplied by STEPOVERSHOOT when configured, then capped at
\* p_ratio*STEPTHRESH when STEPTHRESH is configured and iter > 1.
C13_InitialStep == [][pc = "init" => store'["alpha"] = ExpectedInitialStep]_vars

\* a second line search without restart whose secant step, doubled by the
\* overshoot, was capped at p_ratio*STEPTHRESH
C13_Witness == /\ pc = "status"
               /\ step_count = 0
               /\ iter = 2
               /\ ~restart
               /\ PAR.LINESEARCH # "Backtrack"
               /\ PAR.STEPOVERSHOOT = R(2)
               /\ PAR.STEPTHRESH = <<1, 40>>
               /\ store["alpha"] = RMul(StorePRatio, PAR.STEPTHRESH)

\* C14: in a Backtrack-governed line search in which no trial is below the
\* baseline, the trial steps never increase, each step that compute_step
\* proposes lies between 0.1 and 0.5 times the most recent trial's step, and
\* the pair handed to the backtrack formula (the second entry of the sorted
\* views) is the most recent trial's step and objective.
C14_BacktrackShrinks == (pc = "status" /\ BacktrackGoverned /\ step_count >= 1 /\ ~BelowBaselineWithin(step_count)) =>
    /\ \A k \in 3..(step_count + 1) : RLe(Step(k), Step(k - 1))
    /\ RLe(store["alpha"], Step(step_count + 1))
    /\ RLe(RMul(<<1, 10>>, Step(step_count + 1)), store["alpha"])
    /\ RLe(store["alpha"], RMul(<<1, 2>>, Step(step_count + 1)))
    /\ step_lens(search_history, TRUE)[2] = Step(step_count + 1)
    /\ func_vals(search_history, TRUE)[2] = Obj(step_count + 1)
    /\ store["alpha"] = backtrack2(Obj(1), store["s_new"], Step(step_count + 1), Obj(step_count + 1), <<1, 10>>, <<1, 2>>)

\* the third proposal of an unsuccessful Backtrack search, taken inside the
\* safeguard interval
C14_Witness == /\ pc = "status"
               /\ BacktrackGoverned
               /\ step_count = 3
               /\ ~BelowBaselineWithin(step_count)
               /\ RLt(RMul(<<1, 10>>, Step(4)), store["alpha"])
               /\ RLt(store["alpha"], RMul(<<1, 2>>, Step(4)))
               /\ RLt(Step(4), Step(3)) /\ RLt(Step(3), Step(2))

\* C15: the isdone that search_status returns is -1 exactly when step_count
\* has reached STEPMAX, for every strategy; a trial that meets the
\* convergence condition on the STEPMAX-th update is reported as -1.
C15_FailedIffStepMax == StatusReturned => (isdone = -1 <=> step_count >= PAR.STEPMAX)

\* the STEPMAX-th trial of a Backtrack-governed search is the first one
\* below the baseline and the search is reported as failed
C15_Witness == /\ pc = "finalize"
               /\ BacktrackGoverned
               /\ PAR.STEPMAX >= 2
               /\ step_count = PAR.STEPMAX
               /\ RLt(Obj(step_count + 1), Obj(1))
               /\ ~BelowBaselineWithin(step_count - 1)
               /\ isdone = -1

\* C16: after finalize_search the entries m_old, f_old, g_old, p_old, s_old
\* hold what m_new, f_new, g_new, p_new, s_new held before the call, m_try
\* and f_try are gone, of the *_new entries only m_new and f_new exist, and
\* step_count, restart_count, restart and the history are unchanged.
C16_FinalizeRotates == [][pc = "finalize" => /\ store'["m_old"] = store["m_new"]
                                             /\ store'["f_old"] = store["f_new"]
                                             /\ store'["g_old"] = store["g_new"]
                                             /\ store'["p_old"] = store["p_new"]
                                             /\ store'["s_old"] = store["s_new"]
                                             /\ store'["m_try"] = Absent
                                             /\ store'["f_try"] = Absent
                                             /\ store'["g_new"] = Absent
                                             /\ store'["p_new"] = Absent
                                             /\ store'["s_new"] = Absent
                                             /\ store'["m_new"] # Absent
                                             /\ store'["f_new"] # Absent
                                             /\ UNCHANGED <<step_count, restart_count, restart, search_history>>]_vars

\* the second finalize_search has replaced the *_old entries of the first:
\* m_old is no longer the starting model
C16_Witness == /\ pc = "next"
               /\ iter = 2
               /\ store["m_old"] # M0
               /\ store["f_old"] # F0
               /\ store["s_old"] # Absent
               /\ store["m_try"] = Absent
               /\ store["g_new"] = Absent

\* C17: when the quadratic interpolation of compute_step meets a degenerate
\* set of points, the line search is marked failed (isdone = -1) and alpha
\* and m_try are left as they were.
C17_DegenerateFitFails == [][(pc = "step" /\ TrialStep(PAR, iter, restart, store, search_history, step_count) = Fail) =>
                               (isdone' = -1 /\ store'["alpha"] = store["alpha"] /\ store'["m_try"] = store["m_try"])]_vars

\* the history after k trials
HistoryAfter(k) == SubSeq(search_history, 1, k + 1)

\* number of compute_step proposals made in this line search: one per trial
\* after the first, and the pending one while search_status has not yet
\* recorded it
NumProposals == IF pc = "status" \/ (pc = "error" /\ isnan(store["f_try"])) THEN step_count ELSE step_count - 1

\* the step length that compute_step proposed after the k-th trial
ProposedAfter(k) == IF k < step_count THEN Step(k + 2) ELSE store["alpha"]

\* some trial among the first k has an objective at or below the baseline
AtOrBelowBaselineWithin(k) == \E i \in 2..(k + 1) : RLe(Obj(i), Obj(1))

\* the step length the Bracket branch yields for the history after k trials
BracketProposal(k) == IF BracketFlagAt(k) THEN polyfit2(step_lens(HistoryAfter(k), TRUE), func_vals(HistoryAfter(k), TRUE))
                      ELSE IF AtOrBelowBaselineWithin(k) THEN RDiv(Step(k + 1), PAR.STEPFACTOR)
                      ELSE RMul(Step(k + 1), PAR.STEPFACTOR)

\* C18: in a Bracket-governed line search compute_step interpolates exactly
\* when isbrak is 1; a compute_step call never follows an interpolation, so
\* interpolation happens at most once and only as the last proposal; the
\* trial that closes the bracket is the interpolated step; every other
\* proposal is the previous trial step divided by STEPFACTOR when some trial
\* is at or below the baseline and multiplied by it otherwise.
C18_InterpolateIffBracketed == (InSearch /\ BracketGoverned) =>
    /\ pc = "step" => (isbrak = 1 <=> BracketFlagAt(step_count))
    /\ (pc = "step" /\ step_count >= 2) => ~BracketFlagAt(step_count - 1)
    /\ (pc = "error" /\ ~isnan(store["f_try"])) => (isbrak = 1 /\ BracketFlagAt(step_count))
    /\ isdone = 1 => (BracketFlagAt(step_count - 1) /\ Step(step_count + 1) = BracketProposal(step_count - 1))
    /\ NumProposals >= 1 => ProposedAfter(NumProposals) = BracketProposal(NumProposals)

\* a contraction after a first trial above the baseline, then the
\* interpolated step, whose trial closes the bracket
C18_Witness == /\ pc = "finalize"
               /\ BracketGoverned
               /\ isdone = 1
               /\ step_count = 3
               /\ ~AtOrBelowBaselineWithin(1)
               /\ Step(3) = RMul(Step(2), PAR.STEPFACTOR)
               /\ BracketFlagAt(2)
               /\ Step(4) = polyfit2(step_lens(HistoryAfter(2), TRUE), func_vals(HistoryAfter(2), TRUE))

\* C19: whenever isdone is 1 some trial of the history is strictly below the
\* baseline, and the finalize_search that follows commits the step length
\* and objective of a non-baseline entry, with f_new strictly below the
\* f_new the line search started from.
C19_ConvergedImproves == (InSearch /\ isdone = 1) =>
    /\ BelowBaselineWithin(step_count)
    /\ pc = "next" => /\ RLt(store["f_new"], store["f_old"])
                       /\ store["f_old"] = Obj(1)
                       /\ \E i \in 2..Len(search_history) : Step(i) = store["alpha"] /\ Obj(i) = store["f_new"]

\* a converged Fixed search of three trials has been finalized
C19_Witness == /\ pc = "next"
               /\ isdone = 1
               /\ PAR.LINESEARCH = "Fixed"
               /\ step_count = 3
               /\ RLt(store["f_new"], store["f_old"])
               /\ store["alpha"] # R(0)

\* C20: after every finalize_search, converged or failed, f_new is at most
\* the f_new the line search started from; when no trial is strictly below
\* the baseline (ties included) the committed step length is 0 and m_new and
\* f_new are what they were before the line search.
C20_NeverIncreases == pc = "next" =>
    /\ store["f_old"] = Obj(1)
    /\ RLe(store["f_new"], store["f_old"])
    /\ ~BelowBaselineWithin(step_count) => /\ store["alpha"] = R(0)
                                            /\ store["m_new"] = store["m_old"]
                                            /\ store["f_new"] = store["f_old"]

\* a failed line search in which a trial tied the baseline and none went
\* below it has been finalized
C20_Witness == /\ pc = "next"
               /\ isdone = -1
               /\ step_count >= 2
               /\ ~BelowBaselineWithin(step_count)
               /\ \E i \in 2..Len(search_history) : Obj(i) = Obj(1)
               /\ store["alpha"] = R(0)
               /\ store["m_new"] = store["m_old"]

====
